---------------------------- MODULE Spec2Model ----------------------------
(***************************************************************************)
(* The salary calculator of src/app/page.tsx: the two bracket walkers      *)
(* calculateTax and calculateNI, and the SalaryCalculator component, whose *)
(* ten input fields feed the memoised `calculations` record.               *)
(*                                                                         *)
(* Numbers.  The source computes in JavaScript numbers.  The model counts  *)
(* exactly, in integers:                                                   *)
(*   - every amount that exists before a rate is applied (the inputs,      *)
(*     grossIncome, the pension contributions, taxableIncome, the nursery  *)
(*     costs, the bracket bounds) is a number of PENCE;                    *)
(*   - a bracket rate is a number of PERCENT (0.2 is 20);                  *)
(*   - a liability, pence times percent, is therefore a number of          *)
(*     HUNDREDTHS OF A PENNY, and so are tax, nationalInsurance, takeHome; *)
(*   - the personal allowance, which the source halves, is a number of     *)
(*     HALF PENCE.                                                         *)
(* No product of the source is rounded by this: the only divisions are     *)
(* /100 on gross*percent, exact for whole pounds and whole percents, and   *)
(* /2 in the taper, avoided by counting the allowance in half pence.       *)
(* The rounding of IEEE-754 doubles is not modelled.                       *)
(***************************************************************************)
EXTENDS Integers, Sequences, FiniteSets, TLC

Min(a, b) == IF a <= b THEN a ELSE b
Max(a, b) == IF a >= b THEN a ELSE b

\* x pounds, in pence.
Pounds(x) == 100 * x
\* p pence, in hundredths of a penny (the unit of tax, NI and takeHome).
Hundredths(p) == 100 * p
\* p pence, in half pence (the unit of the personal allowance).
HalfPence(p) == 2 * p

(***************************************************************************)
(* Static configuration, page.tsx lines 10-28.                             *)
(***************************************************************************)
\* Number.POSITIVE_INFINITY: above every amount the model reaches.
POSITIVE_INFINITY == 2000000000

TAX_BRACKETS ==
  << [min |-> Pounds(0),      max |-> Pounds(12570),     rate |-> 0],
     [min |-> Pounds(12570),  max |-> Pounds(50270),     rate |-> 20],
     [min |-> Pounds(50270),  max |-> Pounds(125140),    rate |-> 40],
     [min |-> Pounds(125140), max |-> POSITIVE_INFINITY, rate |-> 45] >>

\* Variant of NI_BRACKETS: the main rate of 8% in place of 12%.
NI_BRACKETS_MainRate8 ==
  << [min |-> Pounds(0),     max |-> Pounds(12570),     rate |-> 0],
     [min |-> Pounds(12570), max |-> Pounds(50270),     rate |-> 8],
     [min |-> Pounds(50270), max |-> POSITIVE_INFINITY, rate |-> 2] >>

NI_BRACKETS ==
  << [min |-> Pounds(0),     max |-> Pounds(12570),     rate |-> 0],
     [min |-> Pounds(12570), max |-> Pounds(50270),     rate |-> 12],
     [min |-> Pounds(50270), max |-> POSITIVE_INFINITY, rate |-> 2] >>

CHILDCARE_FREE_HOURS_THRESHOLD == Pounds(100000)
FREE_CHILDCARE_HOURS_PER_WEEK_UNDER_100K == 30
FREE_CHILDCARE_HOURS_PER_WEEK_3_4_YEARS == 15
SCHOOL_WEEKS_PER_YEAR == 38

(***************************************************************************)
(* calculateTax, page.tsx lines 30-59.                                     *)
(***************************************************************************)
\* Lines 35-39: the personal allowance after the taper, in half pence.
\*   let personalAllowance = 12570
\*   if (taxableIncome > 100000)
\*     personalAllowance -= Math.min(personalAllowance, (taxableIncome - 100000) / 2)
\* Variant of personalAllowance: the reduction is not capped by Math.min.
personalAllowanceUncapped(taxableIncome) ==
  IF taxableIncome > Pounds(100000)
    THEN HalfPence(Pounds(12570)) - (taxableIncome - Pounds(100000))
    ELSE HalfPence(Pounds(12570))

\* Variant of personalAllowance: the excess over 100,000 is not halved.
personalAllowancePoundForPound(taxableIncome) ==
  IF taxableIncome > Pounds(100000)
    THEN HalfPence(Pounds(12570))
           - Min(HalfPence(Pounds(12570)), HalfPence(taxableIncome - Pounds(100000)))
    ELSE HalfPence(Pounds(12570))

personalAllowance(taxableIncome) ==
  IF taxableIncome > Pounds(100000)
    THEN HalfPence(Pounds(12570))
           - Min(HalfPence(Pounds(12570)), taxableIncome - Pounds(100000))
    ELSE HalfPence(Pounds(12570))

\* Variant of taxInBracket: the part of the first band that the tapered
\* allowance no longer covers is charged the basic rate.
taxInBracketTaperCharged(bracket, taxableInBracket, allowance) ==
  IF bracket.min = 0
    THEN LET allowanceUsed == Min(HalfPence(taxableInBracket), allowance)
         IN  (Max(0, HalfPence(taxableInBracket) - allowanceUsed) * 20) \div 2
    ELSE taxableInBracket * bracket.rate

\* Lines 44-53: what one bracket adds to the tax.  Only the bracket whose min
\* is 0 looks at the allowance.  (adjustedMin, line 45, is computed and never
\* read.)
taxInBracket(bracket, taxableInBracket, allowance) ==
  IF bracket.min = 0
    THEN LET allowanceUsed == Min(HalfPence(taxableInBracket), allowance)
         IN  (Max(0, HalfPence(taxableInBracket) - allowanceUsed) * bracket.rate) \div 2
    ELSE taxableInBracket * bracket.rate

\* Variant of taxLoop: a band's share is measured from the band's min on the
\* remaining income, Math.min(remainingIncome, bracket.max) - bracket.min.
RECURSIVE taxLoopShareFromMin(_, _, _, _)
taxLoopShareFromMin(i, remainingIncome, tax, allowance) ==
  IF i > Len(TAX_BRACKETS) \/ remainingIncome <= 0
    THEN tax
    ELSE LET bracket == TAX_BRACKETS[i]
             taxableInBracket == Min(remainingIncome, bracket.max) - bracket.min
         IN  taxLoopShareFromMin(i + 1,
                                 remainingIncome - taxableInBracket,
                                 tax + taxInBracket(bracket, taxableInBracket, allowance),
                                 allowance)

\* Variant of taxLoop: a band holds its upper bound too, bracket.max - bracket.min + 1.
RECURSIVE taxLoopClosedBands(_, _, _, _)
taxLoopClosedBands(i, remainingIncome, tax, allowance) ==
  IF i > Len(TAX_BRACKETS) \/ remainingIncome <= 0
    THEN tax
    ELSE LET bracket == TAX_BRACKETS[i]
             taxableInBracket == Min(remainingIncome, bracket.max - bracket.min + 1)
         IN  taxLoopClosedBands(i + 1,
                                remainingIncome - taxableInBracket,
                                tax + taxInBracket(bracket, taxableInBracket, allowance),
                                allowance)

\* Variant of taxLoop: every band takes its share of the whole income,
\* Math.min(income, bracket.max) - bracket.min, with no exit at zero and no
\* clamp.
RECURSIVE taxLoopSharesOfWhole(_, _, _, _)
taxLoopSharesOfWhole(i, remainingIncome, tax, allowance) ==
  IF i > Len(TAX_BRACKETS)
    THEN tax
    ELSE LET bracket == TAX_BRACKETS[i]
             taxableInBracket == Min(remainingIncome, bracket.max) - bracket.min
         IN  taxLoopSharesOfWhole(i + 1,
                                  remainingIncome,
                                  tax + taxInBracket(bracket, taxableInBracket, allowance),
                                  allowance)

\* Lines 41-56: the loop over TAX_BRACKETS from bracket i on.
RECURSIVE taxLoop(_, _, _, _)
taxLoop(i, remainingIncome, tax, allowance) ==
  IF i > Len(TAX_BRACKETS) \/ remainingIncome <= 0
    THEN tax
    ELSE LET bracket == TAX_BRACKETS[i]
             taxableInBracket == Min(remainingIncome, bracket.max - bracket.min)
         IN  taxLoop(i + 1,
                     remainingIncome - taxableInBracket,
                     tax + taxInBracket(bracket, taxableInBracket, allowance),
                     allowance)

calculateTax(taxableIncome) ==
  taxLoop(1, taxableIncome, 0, personalAllowance(taxableIncome))

(***************************************************************************)
(* calculateNI, page.tsx lines 61-74.                                      *)
(***************************************************************************)
\* Variant of niLoop: remainingIncome is not reduced by the band's share.
RECURSIVE niLoopNoDecrement(_, _, _)
niLoopNoDecrement(i, remainingIncome, ni) ==
  IF i > Len(NI_BRACKETS) \/ remainingIncome <= 0
    THEN ni
    ELSE LET bracket == NI_BRACKETS[i]
             incomeInBracket == Min(remainingIncome, bracket.max - bracket.min)
         IN  niLoopNoDecrement(i + 1, remainingIncome, ni + incomeInBracket * bracket.rate)

RECURSIVE niLoop(_, _, _)
niLoop(i, remainingIncome, ni) ==
  IF i > Len(NI_BRACKETS) \/ remainingIncome <= 0
    THEN ni
    ELSE LET bracket == NI_BRACKETS[i]
             incomeInBracket == Min(remainingIncome, bracket.max - bracket.min)
         IN  niLoop(i + 1,
                    remainingIncome - incomeInBracket,
                    ni + incomeInBracket * bracket.rate)

calculateNI(income) == niLoop(1, income, 0)


(***************************************************************************)
(* SalaryCalculator, page.tsx lines 76-152: the body of the useMemo.       *)
(***************************************************************************)
\* Lines 91-92: (grossIncome * percent) / 100.
percentOf(grossIncome, percent) == (grossIncome * percent) \div 100

\* Line 95.
taxableIncomeOf(grossIncome, employeePensionContribution, totalSalarySacrifice) ==
  grossIncome - employeePensionContribution - totalSalarySacrifice

\* Variant of niIncomeOf: the salary sacrifice is not taken off.
niIncomeBeforeSacrifice(grossIncome, employeePensionContribution, totalSalarySacrifice) ==
  grossIncome - employeePensionContribution

\* Line 97: the argument of calculateNI, written out a second time there.
niIncomeOf(grossIncome, employeePensionContribution, totalSalarySacrifice) ==
  grossIncome - employeePensionContribution - totalSalarySacrifice

\* Variant of isUnder100kOf: <= in place of <.
isUnder100kInclusive(taxableIncome) == taxableIncome <= CHILDCARE_FREE_HOURS_THRESHOLD

\* Line 100.
isUnder100kOf(taxableIncome) == taxableIncome < CHILDCARE_FREE_HOURS_THRESHOLD

\* Line 103.
freeHours9MonthsTo3YearsOf(isUnder100k) ==
  IF isUnder100k THEN FREE_CHILDCARE_HOURS_PER_WEEK_UNDER_100K ELSE 0

\* Variant of freeHours3To4YearsOf: the rule of the younger cohort.
freeHours3To4YearsNoUniversal(isUnder100k) ==
  IF isUnder100k THEN FREE_CHILDCARE_HOURS_PER_WEEK_UNDER_100K ELSE 0

\* Lines 109-111.
freeHours3To4YearsOf(isUnder100k) ==
  IF isUnder100k
    THEN FREE_CHILDCARE_HOURS_PER_WEEK_UNDER_100K
    ELSE FREE_CHILDCARE_HOURS_PER_WEEK_3_4_YEARS

\* Variant of paidHoursOf: without the Math.max(0, ...) clamp.
paidHoursUnclamped(nurseryHoursPerWeek, freeHours) == nurseryHoursPerWeek - freeHours

\* Lines 104 and 112.
paidHoursOf(nurseryHoursPerWeek, freeHours) == Max(0, nurseryHoursPerWeek - freeHours)

\* Variant of costOf: a cohort is charged for at least one child.
costOfAtLeastOneChild(paidHours, nurseryCostPerHour, children) ==
  paidHours * nurseryCostPerHour * SCHOOL_WEEKS_PER_YEAR * Max(1, children)

\* Variant of costOf: the child count is left out of the product.
costOfIgnoringChildren(paidHours, nurseryCostPerHour, children) ==
  paidHours * nurseryCostPerHour * SCHOOL_WEEKS_PER_YEAR

\* Lines 105-106 and 113.
costOf(paidHours, nurseryCostPerHour, children) ==
  paidHours * nurseryCostPerHour * SCHOOL_WEEKS_PER_YEAR * children

\* Variant of takeHomeOf: the nursery cost is not taken off.
takeHomeBeforeNursery(grossIncome, employeePensionContribution, tax, nationalInsurance, totalSalarySacrifice, nurseryAnnualCost) ==
  Hundredths(grossIncome) - Hundredths(employeePensionContribution) - tax
    - nationalInsurance - Hundredths(totalSalarySacrifice)

\* Lines 117-118.  tax and nationalInsurance are in hundredths of a penny, the
\* other terms in pence.
takeHomeOf(grossIncome, employeePensionContribution, tax, nationalInsurance, totalSalarySacrifice, nurseryAnnualCost) ==
  Hundredths(grossIncome) - Hundredths(employeePensionContribution) - tax
    - nationalInsurance - Hundredths(totalSalarySacrifice) - Hundredths(nurseryAnnualCost)

\* Variant of computeCalculations: the free hours it reports are the cohort's
\* totals, the per-child hours times the child count.
computeCalculationsFreeHoursTotals(in) ==
  LET grossIncome == in.salary + in.bonus
      totalSalarySacrifice == in.electricCarSacrifice + in.bikeToWorkSacrifice
      employeePensionContribution == percentOf(grossIncome, in.pensionContributionPercent)
      employerPensionContribution == percentOf(grossIncome, in.employerPensionPercent)
      totalPensionContribution == employeePensionContribution + employerPensionContribution
      taxableIncome ==
        taxableIncomeOf(grossIncome, employeePensionContribution, totalSalarySacrifice)
      tax == calculateTax(taxableIncome)
      nationalInsurance ==
        calculateNI(niIncomeOf(grossIncome, employeePensionContribution, totalSalarySacrifice))
      isUnder100k == isUnder100kOf(taxableIncome)
      freeHours9MonthsTo3Years == freeHours9MonthsTo3YearsOf(isUnder100k)
      paidHours9MonthsTo3Years == paidHoursOf(in.nurseryHoursPerWeek, freeHours9MonthsTo3Years)
      cost9MonthsTo3Years ==
        costOf(paidHours9MonthsTo3Years, in.nurseryCostPerHour, in.children9MonthsTo3Years)
      freeHours3To4Years == freeHours3To4YearsOf(isUnder100k)
      paidHours3To4Years == paidHoursOf(in.nurseryHoursPerWeek, freeHours3To4Years)
      cost3To4Years == costOf(paidHours3To4Years, in.nurseryCostPerHour, in.children3To4Years)
      nurseryAnnualCost == cost9MonthsTo3Years + cost3To4Years
      takeHome ==
        takeHomeOf(grossIncome, employeePensionContribution, tax, nationalInsurance,
                   totalSalarySacrifice, nurseryAnnualCost)
  IN  [ grossIncome |-> grossIncome,
        taxableIncome |-> taxableIncome,
        employeePensionContribution |-> employeePensionContribution,
        employerPensionContribution |-> employerPensionContribution,
        totalPensionContribution |-> totalPensionContribution,
        tax |-> tax,
        nationalInsurance |-> nationalInsurance,
        totalSalarySacrifice |-> totalSalarySacrifice,
        electricCarSacrifice |-> in.electricCarSacrifice,
        bikeToWorkSacrifice |-> in.bikeToWorkSacrifice,
        nurseryAnnualCost |-> nurseryAnnualCost,
        freeHours9MonthsTo3Years |-> freeHours9MonthsTo3Years * in.children9MonthsTo3Years,
        freeHours3To4Years |-> freeHours3To4Years * in.children3To4Years,
        paidHours9MonthsTo3Years |-> paidHours9MonthsTo3Years,
        paidHours3To4Years |-> paidHours3To4Years,
        cost9MonthsTo3Years |-> cost9MonthsTo3Years,
        cost3To4Years |-> cost3To4Years,
        isUnder100k |-> isUnder100k,
        takeHome |-> takeHome ]

\* Variant of computeCalculations: taxableIncome takes off the total pension
\* contribution, the employer's share included.
computeCalculationsEmployerShareTaxed(in) ==
  LET grossIncome == in.salary + in.bonus
      totalSalarySacrifice == in.electricCarSacrifice + in.bikeToWorkSacrifice
      employeePensionContribution == percentOf(grossIncome, in.pensionContributionPercent)
      employerPensionContribution == percentOf(grossIncome, in.employerPensionPercent)
      totalPensionContribution == employeePensionContribution + employerPensionContribution
      taxableIncome ==
        taxableIncomeOf(grossIncome, totalPensionContribution, totalSalarySacrifice)
      tax == calculateTax(taxableIncome)
      nationalInsurance ==
        calculateNI(niIncomeOf(grossIncome, employeePensionContribution, totalSalarySacrifice))
      isUnder100k == isUnder100kOf(taxableIncome)
      freeHours9MonthsTo3Years == freeHours9MonthsTo3YearsOf(isUnder100k)
      paidHours9MonthsTo3Years == paidHoursOf(in.nurseryHoursPerWeek, freeHours9MonthsTo3Years)
      cost9MonthsTo3Years ==
        costOf(paidHours9MonthsTo3Years, in.nurseryCostPerHour, in.children9MonthsTo3Years)
      freeHours3To4Years == freeHours3To4YearsOf(isUnder100k)
      paidHours3To4Years == paidHoursOf(in.nurseryHoursPerWeek, freeHours3To4Years)
      cost3To4Years == costOf(paidHours3To4Years, in.nurseryCostPerHour, in.children3To4Years)
      nurseryAnnualCost == cost9MonthsTo3Years + cost3To4Years
      takeHome ==
        takeHomeOf(grossIncome, employeePensionContribution, tax, nationalInsurance,
                   totalSalarySacrifice, nurseryAnnualCost)
  IN  [ grossIncome |-> grossIncome,
        taxableIncome |-> taxableIncome,
        employeePensionContribution |-> employeePensionContribution,
        employerPensionContribution |-> employerPensionContribution,
        totalPensionContribution |-> totalPensionContribution,
        tax |-> tax,
        nationalInsurance |-> nationalInsurance,
        totalSalarySacrifice |-> totalSalarySacrifice,
        electricCarSacrifice |-> in.electricCarSacrifice,
        bikeToWorkSacrifice |-> in.bikeToWorkSacrifice,
        nurseryAnnualCost |-> nurseryAnnualCost,
        freeHours9MonthsTo3Years |-> freeHours9MonthsTo3Years,
        freeHours3To4Years |-> freeHours3To4Years,
        paidHours9MonthsTo3Years |-> paidHours9MonthsTo3Years,
        paidHours3To4Years |-> paidHours3To4Years,
        cost9MonthsTo3Years |-> cost9MonthsTo3Years,
        cost3To4Years |-> cost3To4Years,
        isUnder100k |-> isUnder100k,
        takeHome |-> takeHome ]

\* Lines 88-140: the record the memo's callback returns for the inputs in.
computeCalculations(in) ==
  LET grossIncome == in.salary + in.bonus
      totalSalarySacrifice == in.electricCarSacrifice + in.bikeToWorkSacrifice
      employeePensionContribution == percentOf(grossIncome, in.pensionContributionPercent)
      employerPensionContribution == percentOf(grossIncome, in.employerPensionPercent)
      totalPensionContribution == employeePensionContribution + employerPensionContribution
      taxableIncome ==
        taxableIncomeOf(grossIncome, employeePensionContribution, totalSalarySacrifice)
      tax == calculateTax(taxableIncome)
      nationalInsurance ==
        calculateNI(niIncomeOf(grossIncome, employeePensionContribution, totalSalarySacrifice))
      isUnder100k == isUnder100kOf(taxableIncome)
      freeHours9MonthsTo3Years == freeHours9MonthsTo3YearsOf(isUnder100k)
      paidHours9MonthsTo3Years == paidHoursOf(in.nurseryHoursPerWeek, freeHours9MonthsTo3Years)
      cost9MonthsTo3Years ==
        costOf(paidHours9MonthsTo3Years, in.nurseryCostPerHour, in.children9MonthsTo3Years)
      freeHours3To4Years == freeHours3To4YearsOf(isUnder100k)
      paidHours3To4Years == paidHoursOf(in.nurseryHoursPerWeek, freeHours3To4Years)
      cost3To4Years == costOf(paidHours3To4Years, in.nurseryCostPerHour, in.children3To4Years)
      nurseryAnnualCost == cost9MonthsTo3Years + cost3To4Years
      takeHome ==
        takeHomeOf(grossIncome, employeePensionContribution, tax, nationalInsurance,
                   totalSalarySacrifice, nurseryAnnualCost)
  IN  [ grossIncome |-> grossIncome,
        taxableIncome |-> taxableIncome,
        employeePensionContribution |-> employeePensionContribution,
        employerPensionContribution |-> employerPensionContribution,
        totalPensionContribution |-> totalPensionContribution,
        tax |-> tax,
        nationalInsurance |-> nationalInsurance,
        totalSalarySacrifice |-> totalSalarySacrifice,
        electricCarSacrifice |-> in.electricCarSacrifice,
        bikeToWorkSacrifice |-> in.bikeToWorkSacrifice,
        nurseryAnnualCost |-> nurseryAnnualCost,
        freeHours9MonthsTo3Years |-> freeHours9MonthsTo3Years,
        freeHours3To4Years |-> freeHours3To4Years,
        paidHours9MonthsTo3Years |-> paidHours9MonthsTo3Years,
        paidHours3To4Years |-> paidHours3To4Years,
        cost9MonthsTo3Years |-> cost9MonthsTo3Years,
        cost3To4Years |-> cost3To4Years,
        isUnder100k |-> isUnder100k,
        takeHome |-> takeHome ]

\* Variant of memoDependencies: bonus is missing from the list.
memoDependenciesWithoutBonus(in) ==
  << in.salary, in.pensionContributionPercent, in.employerPensionPercent,
     in.electricCarSacrifice, in.bikeToWorkSacrifice, in.nurseryCostPerHour,
     in.nurseryHoursPerWeek, in.children9MonthsTo3Years, in.children3To4Years >>

\* Lines 141-152: the dependency list of the memo.
memoDependencies(in) ==
  << in.salary, in.bonus, in.pensionContributionPercent, in.employerPensionPercent,
     in.electricCarSacrifice, in.bikeToWorkSacrifice, in.nurseryCostPerHour,
     in.nurseryHoursPerWeek, in.children9MonthsTo3Years, in.children3To4Years >>

\* Line 88, useMemo: on a render with inputs in, the callback runs again only
\* if a dependency differs from the one of the render that last ran it.
useMemo(memo, in) ==
  IF memoDependencies(in) = memo.deps
    THEN memo
    ELSE [deps |-> memoDependencies(in), value |-> computeCalculations(in)]

(***************************************************************************)
(* The flat-rule variant of the component, page.tsx lines 418-742: one     *)
(* child count, one free-hours rule, the employer's share fixed at 3%.     *)
(* Its calculateTax and calculateNI (lines 444-488) are, character for     *)
(* character, those of lines 30-74.                                        *)
(***************************************************************************)
FREE_CHILDCARE_HOURS_PER_WEEK == 30

\* Variant of freeHoursPerChildOf: <= in place of <.
freeHoursPerChildInclusive(taxableIncome) ==
  IF taxableIncome <= CHILDCARE_FREE_HOURS_THRESHOLD THEN FREE_CHILDCARE_HOURS_PER_WEEK ELSE 0

\* Line 512.
freeHoursPerChildOf(taxableIncome) ==
  IF taxableIncome < CHILDCARE_FREE_HOURS_THRESHOLD THEN FREE_CHILDCARE_HOURS_PER_WEEK ELSE 0

\* Lines 500-534: the record the flat variant's memo callback returns.
computeCalculationsFlat(in) ==
  LET grossIncome == in.salary + in.bonus
      totalSalarySacrifice == in.electricCarSacrifice + in.bikeToWorkSacrifice
      employeePensionContribution == (grossIncome * in.pensionContributionPercent) \div 100
      employerPensionContribution == (grossIncome * 3) \div 100
      totalPensionContribution == employeePensionContribution + employerPensionContribution
      taxableIncome == grossIncome - employeePensionContribution - totalSalarySacrifice
      tax == calculateTax(taxableIncome)
      nationalInsurance ==
        calculateNI(grossIncome - employeePensionContribution - totalSalarySacrifice)
      freeHoursPerChild == freeHoursPerChildOf(taxableIncome)
      paidHoursPerChild == Max(0, in.nurseryHoursPerWeek - freeHoursPerChild)
      nurseryAnnualCost ==
        paidHoursPerChild * in.nurseryCostPerHour * SCHOOL_WEEKS_PER_YEAR * in.numberOfChildren
      takeHome ==
        Hundredths(grossIncome) - Hundredths(employeePensionContribution) - tax
          - nationalInsurance - Hundredths(totalSalarySacrifice)
          - Hundredths(nurseryAnnualCost)
  IN  [ grossIncome |-> grossIncome,
        taxableIncome |-> taxableIncome,
        employeePensionContribution |-> employeePensionContribution,
        employerPensionContribution |-> employerPensionContribution,
        totalPensionContribution |-> totalPensionContribution,
        tax |-> tax,
        nationalInsurance |-> nationalInsurance,
        totalSalarySacrifice |-> totalSalarySacrifice,
        electricCarSacrifice |-> in.electricCarSacrifice,
        bikeToWorkSacrifice |-> in.bikeToWorkSacrifice,
        nurseryAnnualCost |-> nurseryAnnualCost,
        freeHoursPerChild |-> freeHoursPerChild,
        paidHoursPerChild |-> paidHoursPerChild,
        takeHome |-> takeHome ]

(***************************************************************************)
(* The component's state: the ten useState cells (lines 77-86) and the     *)
(* memo of line 88.  probe and returned belong to the second               *)
(* specification, which calls the two bracket walkers directly.            *)
(***************************************************************************)
VARIABLES
  salary, bonus, pensionContributionPercent, employerPensionPercent,
  electricCarSacrifice, bikeToWorkSacrifice, nurseryCostPerHour,
  nurseryHoursPerWeek, children9MonthsTo3Years, children3To4Years,
  memo,
  probe, returned

inputVars ==
  << salary, bonus, pensionContributionPercent, employerPensionPercent,
     electricCarSacrifice, bikeToWorkSacrifice, nurseryCostPerHour,
     nurseryHoursPerWeek, children9MonthsTo3Years, children3To4Years >>

vars == << inputVars, memo, probe, returned >>

\* The values of the ten cells, as the render reads them.
inputs ==
  [ salary |-> salary,
    bonus |-> bonus,
    pensionContributionPercent |-> pensionContributionPercent,
    employerPensionPercent |-> employerPensionPercent,
    electricCarSacrifice |-> electricCarSacrifice,
    bikeToWorkSacrifice |-> bikeToWorkSacrifice,
    nurseryCostPerHour |-> nurseryCostPerHour,
    nurseryHoursPerWeek |-> nurseryHoursPerWeek,
    children9MonthsTo3Years |-> children9MonthsTo3Years,
    children3To4Years |-> children3To4Years ]

\* `calculations`, the value line 88 binds in the current render.
calculations == memo.value

\* Lines 77-86: the initial values of the cells.
initialInputs ==
  [ salary |-> Pounds(50000),
    bonus |-> Pounds(0),
    pensionContributionPercent |-> 5,
    employerPensionPercent |-> 3,
    electricCarSacrifice |-> Pounds(0),
    bikeToWorkSacrifice |-> Pounds(0),
    nurseryCostPerHour |-> Pounds(12),
    nurseryHoursPerWeek |-> 40,
    children9MonthsTo3Years |-> 1,
    children3To4Years |-> 0 ]

(***************************************************************************)
(* What the user can enter.  A number field delivers the empty string or   *)
(* the text of a number; << >> stands for the empty string and << n >> for *)
(* the text of n.  Amounts are entered in whole pounds.                    *)
(***************************************************************************)
MaxChildren == 2

Empty == << >>
Texts(S) == {Empty} \cup { << n >> : n \in S }

SalaryTexts ==
  Texts({ Pounds(x) : x \in {-1000, 12570, 50000, 99999, 100000, 130000, 160000} })
BonusTexts == Texts({ Pounds(10000) })
SacrificeTexts == Texts({ Pounds(5000) })
CostPerHourTexts == Texts({ Pounds(12) })
HoursTexts == Texts({ 20, 40 })
ChildrenTexts == Texts(1 .. MaxChildren)
\* The sliders (lines 223-243) deliver a number; the model moves them to
\* whole percents.
EmployeePercents == {0, 5, 40}
EmployerPercents == {3, 20}

\* Lines 195-196 and alike: value === "" ? 0 : Number(value).
fieldNumber(value) == IF value = Empty THEN 0 ELSE value[1]

\* The render that follows a state change, with the cells as in.
render(in) == memo' = useMemo(memo, in)

(***************************************************************************)
(* The first render, then one action per onChange / onValueChange.         *)
(***************************************************************************)
IdleProbe == [a |-> 0, b |-> 0]
NotCalled == << >>

Init ==
  /\ salary = initialInputs.salary
  /\ bonus = initialInputs.bonus
  /\ pensionContributionPercent = initialInputs.pensionContributionPercent
  /\ employerPensionPercent = initialInputs.employerPensionPercent
  /\ electricCarSacrifice = initialInputs.electricCarSacrifice
  /\ bikeToWorkSacrifice = initialInputs.bikeToWorkSacrifice
  /\ nurseryCostPerHour = initialInputs.nurseryCostPerHour
  /\ nurseryHoursPerWeek = initialInputs.nurseryHoursPerWeek
  /\ children9MonthsTo3Years = initialInputs.children9MonthsTo3Years
  /\ children3To4Years = initialInputs.children3To4Years
  /\ memo = [deps |-> memoDependencies(initialInputs),
             value |-> computeCalculations(initialInputs)]
  /\ probe = IdleProbe
  /\ returned = [allowance |-> NotCalled, tax |-> NotCalled, ni |-> NotCalled]

\* Lines 194-197.
setSalary ==
  \E value \in SalaryTexts :
    /\ salary' = fieldNumber(value)
    /\ render([inputs EXCEPT !.salary = salary'])
    /\ UNCHANGED << bonus, pensionContributionPercent, employerPensionPercent,
                    electricCarSacrifice, bikeToWorkSacrifice, nurseryCostPerHour,
                    nurseryHoursPerWeek, children9MonthsTo3Years, children3To4Years,
                    probe, returned >>

\* Lines 206-209.
setBonus ==
  \E value \in BonusTexts :
    /\ bonus' = fieldNumber(value)
    /\ render([inputs EXCEPT !.bonus = bonus'])
    /\ UNCHANGED << salary, pensionContributionPercent, employerPensionPercent,
                    electricCarSacrifice, bikeToWorkSacrifice, nurseryCostPerHour,
                    nurseryHoursPerWeek, children9MonthsTo3Years, children3To4Years,
                    probe, returned >>

\* Line 228.
setPensionContributionPercent ==
  \E value \in EmployeePercents :
    /\ pensionContributionPercent' = value
    /\ render([inputs EXCEPT !.pensionContributionPercent = value])
    /\ UNCHANGED << salary, bonus, employerPensionPercent,
                    electricCarSacrifice, bikeToWorkSacrifice, nurseryCostPerHour,
                    nurseryHoursPerWeek, children9MonthsTo3Years, children3To4Years,
                    probe, returned >>

\* Line 243.
setEmployerPensionPercent ==
  \E value \in EmployerPercents :
    /\ employerPensionPercent' = value
    /\ render([inputs EXCEPT !.employerPensionPercent = value])
    /\ UNCHANGED << salary, bonus, pensionContributionPercent,
                    electricCarSacrifice, bikeToWorkSacrifice, nurseryCostPerHour,
                    nurseryHoursPerWeek, children9MonthsTo3Years, children3To4Years,
                    probe, returned >>

\* Lines 264-267.
setElectricCarSacrifice ==
  \E value \in SacrificeTexts :
    /\ electricCarSacrifice' = fieldNumber(value)
    /\ render([inputs EXCEPT !.electricCarSacrifice = electricCarSacrifice'])
    /\ UNCHANGED << salary, bonus, pensionContributionPercent, employerPensionPercent,
                    bikeToWorkSacrifice, nurseryCostPerHour,
                    nurseryHoursPerWeek, children9MonthsTo3Years, children3To4Years,
                    probe, returned >>

\* Lines 276-279.
setBikeToWorkSacrifice ==
  \E value \in SacrificeTexts :
    /\ bikeToWorkSacrifice' = fieldNumber(value)
    /\ render([inputs EXCEPT !.bikeToWorkSacrifice = bikeToWorkSacrifice'])
    /\ UNCHANGED << salary, bonus, pensionContributionPercent, employerPensionPercent,
                    electricCarSacrifice, nurseryCostPerHour,
                    nurseryHoursPerWeek, children9MonthsTo3Years, children3To4Years,
                    probe, returned >>

\* Lines 298-301.
setNurseryCostPerHour ==
  \E value \in CostPerHourTexts :
    /\ nurseryCostPerHour' = fieldNumber(value)
    /\ render([inputs EXCEPT !.nurseryCostPerHour = nurseryCostPerHour'])
    /\ UNCHANGED << salary, bonus, pensionContributionPercent, employerPensionPercent,
                    electricCarSacrifice, bikeToWorkSacrifice,
                    nurseryHoursPerWeek, children9MonthsTo3Years, children3To4Years,
                    probe, returned >>

\* Lines 310-313.
setNurseryHoursPerWeek ==
  \E value \in HoursTexts :
    /\ nurseryHoursPerWeek' = fieldNumber(value)
    /\ render([inputs EXCEPT !.nurseryHoursPerWeek = nurseryHoursPerWeek'])
    /\ UNCHANGED << salary, bonus, pensionContributionPercent, employerPensionPercent,
                    electricCarSacrifice, bikeToWorkSacrifice, nurseryCostPerHour,
                    children9MonthsTo3Years, children3To4Years,
                    probe, returned >>

\* Lines 323-326.
setChildren9MonthsTo3Years ==
  \E value \in ChildrenTexts :
    /\ children9MonthsTo3Years' = fieldNumber(value)
    /\ render([inputs EXCEPT !.children9MonthsTo3Years = children9MonthsTo3Years'])
    /\ UNCHANGED << salary, bonus, pensionContributionPercent, employerPensionPercent,
                    electricCarSacrifice, bikeToWorkSacrifice, nurseryCostPerHour,
                    nurseryHoursPerWeek, children3To4Years,
                    probe, returned >>

\* Lines 336-339.
setChildren3To4Years ==
  \E value \in ChildrenTexts :
    /\ children3To4Years' = fieldNumber(value)
    /\ render([inputs EXCEPT !.children3To4Years = children3To4Years'])
    /\ UNCHANGED << salary, bonus, pensionContributionPercent, employerPensionPercent,
                    electricCarSacrifice, bikeToWorkSacrifice, nurseryCostPerHour,
                    nurseryHoursPerWeek, children9MonthsTo3Years,
                    probe, returned >>

Next ==
  \/ setSalary
  \/ setBonus
  \/ setPensionContributionPercent
  \/ setEmployerPensionPercent
  \/ setElectricCarSacrifice
  \/ setBikeToWorkSacrifice
  \/ setNurseryCostPerHour
  \/ setNurseryHoursPerWeek
  \/ setChildren9MonthsTo3Years
  \/ setChildren3To4Years

Spec == Init /\ [][Next]_vars

(***************************************************************************)
(* The second specification: calculateTax and calculateNI called on their  *)
(* own, each on a pair of incomes a <= b.  The incomes lie within Delta    *)
(* pence and Delta pounds of every threshold of the source, and on a grid  *)
(* of 10,000 pounds up to GridSteps steps; and below zero, where the       *)
(* deductions exceed what is earned.                                       *)
(***************************************************************************)
Delta == 2
GridSteps == 23

Thresholds == { Pounds(x) : x \in {0, 12570, 50270, 100000, 125140, 150000, 225140} }
Offsets == (-Delta .. Delta) \cup { Pounds(d) : d \in -Delta .. Delta }
\* taxableIncome when nothing is earned and salary sacrifices are entered.
Shortfalls == { 0 - (e + b) : e \in {0, Pounds(5000)}, b \in {0, Pounds(5000)} }
Incomes ==
  { t + d : t \in Thresholds, d \in Offsets }
    \cup { Pounds(10000) * k : k \in 0 .. GridSteps }
    \cup Shortfalls

InitCalc ==
  /\ salary = initialInputs.salary
  /\ bonus = initialInputs.bonus
  /\ pensionContributionPercent = initialInputs.pensionContributionPercent
  /\ employerPensionPercent = initialInputs.employerPensionPercent
  /\ electricCarSacrifice = initialInputs.electricCarSacrifice
  /\ bikeToWorkSacrifice = initialInputs.bikeToWorkSacrifice
  /\ nurseryCostPerHour = initialInputs.nurseryCostPerHour
  /\ nurseryHoursPerWeek = initialInputs.nurseryHoursPerWeek
  /\ children9MonthsTo3Years = initialInputs.children9MonthsTo3Years
  /\ children3To4Years = initialInputs.children3To4Years
  /\ memo = [deps |-> memoDependencies(initialInputs),
             value |-> computeCalculations(initialInputs)]
  /\ probe \in { [a |-> x, b |-> y] : x \in Incomes, y \in Incomes }
  /\ probe.a <= probe.b
  /\ returned = [allowance |-> NotCalled, tax |-> NotCalled, ni |-> NotCalled]

\* calculateTax(a) and calculateTax(b) return; the allowance each call worked
\* with (lines 35-39) is recorded beside its result.
callCalculateTax ==
  /\ returned.tax = NotCalled
  /\ returned' = [returned EXCEPT
                    !.allowance = << personalAllowance(probe.a), personalAllowance(probe.b) >>,
                    !.tax = << calculateTax(probe.a), calculateTax(probe.b) >>]
  /\ UNCHANGED << inputVars, memo, probe >>

\* calculateNI(a) and calculateNI(b) return.
callCalculateNI ==
  /\ returned.ni = NotCalled
  /\ returned' = [returned EXCEPT !.ni = << calculateNI(probe.a), calculateNI(probe.b) >>]
  /\ UNCHANGED << inputVars, memo, probe >>

NextCalc ==
  \/ callCalculateTax
  \/ callCalculateNI

SpecCalc == InitCalc /\ [][NextCalc]_vars

taxCalled == returned.tax # NotCalled
niCalled == returned.ni # NotCalled

(***************************************************************************)
(* Properties of the bracket walkers, checked under SpecCalc.              *)
(***************************************************************************)
\* The two calls of a state: the income passed and what came back.
taxCalls ==
  { [income |-> probe.a, allowance |-> returned.allowance[1], tax |-> returned.tax[1]],
    [income |-> probe.b, allowance |-> returned.allowance[2], tax |-> returned.tax[2]] }
niCalls ==
  { [income |-> probe.a, ni |-> returned.ni[1]],
    [income |-> probe.b, ni |-> returned.ni[2]] }

\* C4: for non-negative incomes a <= b, 0 <= calculateTax(a) <= calculateTax(b):
\* the tax is never negative and never falls as the income rises, across
\* every band boundary and across the 100,000 taper threshold.
C4_TaxNonNegativeAndMonotone ==
  (taxCalled /\ 0 <= probe.a /\ probe.a <= probe.b)
    => (0 <= returned.tax[1] /\ returned.tax[1] <= returned.tax[2])

\* C4 witness: a pair of incomes astride the taper threshold, one penny apart,
\* has been taxed, and the higher income pays more.
C4_Witness ==
  /\ taxCalled
  /\ probe.a = Pounds(100000)
  /\ probe.b = Pounds(100000) + 1
  /\ 0 < returned.tax[1]
  /\ returned.tax[1] < returned.tax[2]

\* What the closed bands below each boundary charge in full, and the rate
\* (percent) of the band that opens at the boundary.
TaxBoundaries ==
  { [at |-> Pounds(12570),  below |-> 0,                  rate |-> 20],
    [at |-> Pounds(50270),  below |-> Pounds(37700) * 20, rate |-> 40],
    [at |-> Pounds(125140), below |-> Pounds(37700) * 20 + Pounds(74870) * 40, rate |-> 45] }
NIBoundaries ==
  { [at |-> Pounds(12570), below |-> 0,                  rate |-> 12],
    [at |-> Pounds(50270), below |-> Pounds(37700) * 12, rate |-> 2] }

\* C5: band boundaries are half-open.  An income exactly on a boundary of the
\* tax schedule (12,570; 50,270; 125,140) or of the NI schedule (12,570;
\* 50,270) is charged the bands below in full and nothing at the rate of the
\* band that opens there; one penny more is charged one penny at that rate,
\* one pound more one pound at that rate.  So calculateTax(12,570) = 0 and
\* calculateTax(12,571) > 0.
C5_BoundariesHalfOpen ==
  /\ taxCalled =>
       \A c \in taxCalls : \A bd \in TaxBoundaries :
         /\ c.income = bd.at => c.tax = bd.below
         /\ c.income = bd.at + 1 => c.tax = bd.below + bd.rate
         /\ c.income = bd.at + Pounds(1) => c.tax = bd.below + Pounds(1) * bd.rate
  /\ taxCalled =>
       \A c \in taxCalls :
         /\ c.income = Pounds(12570) => c.tax = 0
         /\ c.income = Pounds(12571) => c.tax > 0
  /\ niCalled =>
       \A c \in niCalls : \A bd \in NIBoundaries :
         /\ c.income = bd.at => c.ni = bd.below
         /\ c.income = bd.at + 1 => c.ni = bd.below + bd.rate
         /\ c.income = bd.at + Pounds(1) => c.ni = bd.below + Pounds(1) * bd.rate

\* C5 witness: 12,570 and 12,571 pounds have both been through calculateTax
\* and calculateNI; the first is charged nothing, the second something.
C5_Witness ==
  /\ taxCalled /\ niCalled
  /\ probe.a = Pounds(12570)
  /\ probe.b = Pounds(12571)
  /\ returned.tax = << 0, Pounds(1) * 20 >>
  /\ returned.ni = << 0, Pounds(1) * 12 >>

\* C6: the allowance calculateTax works with is 12,570 for every income up to
\* and including 100,000, is 0 at 125,140, at 150,000 and at every higher
\* income, and is negative for no income.
C6_AllowanceEnds ==
  taxCalled =>
    \A c \in taxCalls :
      /\ c.income <= Pounds(100000) => c.allowance = HalfPence(Pounds(12570))
      /\ c.income >= Pounds(125140) => c.allowance = 0
      /\ c.allowance >= 0

\* C6 witness: calculateTax has run on 100,000 with the full allowance and on
\* 150,000 with none.
C6_Witness ==
  /\ taxCalled
  /\ probe.a = Pounds(100000)
  /\ probe.b = Pounds(150000)
  /\ returned.allowance = << HalfPence(Pounds(12570)), 0 >>

\* C7 as stated: above 100,000 the allowance falls by one pound per two
\* pounds of income, and it first becomes zero at 225,140: it is still
\* positive for every income below 225,140.
C7_AsStated ==
  taxCalled =>
    \A c \in taxCalls :
      /\ (Pounds(100000) <= c.income /\ c.income < Pounds(225140)) =>
           /\ c.allowance > 0
           /\ c.allowance = HalfPence(Pounds(12570)) - (c.income - Pounds(100000))
      /\ c.income >= Pounds(225140) => c.allowance = 0

\* C7 amended: above 100,000 the allowance falls by one pound per two pounds
\* of income, and the income at which it first becomes zero is
\* threshold + 2 * baseAllowance = 125,140: it is still positive for every
\* income below 125,140 and zero from there on.
C7_TaperReachesZeroAt125140 ==
  taxCalled =>
    \A c \in taxCalls :
      /\ (Pounds(100000) <= c.income /\ c.income < Pounds(125140)) =>
           /\ c.allowance > 0
           /\ c.allowance = HalfPence(Pounds(12570)) - (c.income - Pounds(100000))
      /\ c.income >= Pounds(125140) => c.allowance = 0

\* C7 witness: one penny below 125,140 the allowance is half a penny, and at
\* 125,140 it is zero.
C7_Witness ==
  /\ taxCalled
  /\ probe.a = Pounds(125140) - 1
  /\ probe.b = Pounds(125140)
  /\ returned.allowance = << 1, 0 >>

\* C8: calculateNI(income) is 0 up to 12,570, 12% of the income above 12,570
\* up to 50,270, and 37,700 * 12% plus 2% of the income above 50,270 beyond.
C8_NIClosedForm ==
  niCalled =>
    \A c \in niCalls :
      /\ (0 <= c.income /\ c.income <= Pounds(12570)) => c.ni = 0
      /\ (Pounds(12570) <= c.income /\ c.income <= Pounds(50270)) =>
           c.ni = (c.income - Pounds(12570)) * 12
      /\ c.income >= Pounds(50270) =>
           c.ni = Pounds(37700) * 12 + (c.income - Pounds(50270)) * 2

\* C8 witness: calculateNI has run on an income inside the 12% band and on
\* one inside the 2% band.
C8_Witness ==
  /\ niCalled
  /\ probe.a = Pounds(30000)
  /\ probe.b = Pounds(60000)
  /\ returned.ni = << Pounds(17430) * 12, Pounds(37700) * 12 + Pounds(9730) * 2 >>

(***************************************************************************)
(* Properties of the calculations record, checked under Spec.              *)
(***************************************************************************)
\* C1: takeHome = grossIncome - employeePensionContribution - tax
\* - nationalInsurance - totalSalarySacrifice - nurseryAnnualCost, where
\* grossIncome = salary + bonus, totalSalarySacrifice = electricCarSacrifice
\* + bikeToWorkSacrifice and nurseryAnnualCost = cost9MonthsTo3Years
\* + cost3To4Years.
C1_TakeHomeIdentity ==
  /\ calculations.grossIncome = salary + bonus
  /\ calculations.totalSalarySacrifice = electricCarSacrifice + bikeToWorkSacrifice
  /\ calculations.nurseryAnnualCost =
       calculations.cost9MonthsTo3Years + calculations.cost3To4Years
  /\ calculations.takeHome =
       Hundredths(calculations.grossIncome
                    - calculations.employeePensionContribution
                    - calculations.totalSalarySacrifice
                    - calculations.nurseryAnnualCost)
         - calculations.tax - calculations.nationalInsurance

\* C1 witness: a record in which every term of the identity is positive.
C1_Witness ==
  /\ salary > 0 /\ bonus > 0
  /\ electricCarSacrifice > 0 /\ bikeToWorkSacrifice > 0
  /\ calculations.employeePensionContribution > 0
  /\ calculations.tax > 0 /\ calculations.nationalInsurance > 0
  /\ calculations.cost9MonthsTo3Years > 0 /\ calculations.cost3To4Years > 0
  /\ calculations.takeHome > 0

\* C2: taxableIncome = grossIncome - employeePensionContribution -
\* totalSalarySacrifice, and tax, nationalInsurance and isUnder100k of one
\* record all come from that one figure.
C2_OneTaxableIncome ==
  /\ calculations.taxableIncome =
       calculations.grossIncome - calculations.employeePensionContribution
         - calculations.totalSalarySacrifice
  /\ calculations.tax = calculateTax(calculations.taxableIncome)
  /\ calculations.nationalInsurance = calculateNI(calculations.taxableIncome)
  /\ calculations.isUnder100k = (calculations.taxableIncome < Pounds(100000))

\* C2 witness: a record with a pension contribution and a salary sacrifice
\* taken off, taxed and charged NI, over the childcare threshold.
C2_Witness ==
  /\ calculations.employeePensionContribution > 0
  /\ calculations.totalSalarySacrifice > 0
  /\ calculations.taxableIncome < calculations.grossIncome
  /\ calculations.tax > 0 /\ calculations.nationalInsurance > 0
  /\ ~calculations.isUnder100k

\* The inputs of the worked scenario.
Scenario ==
  /\ salary = Pounds(50000) /\ bonus = 0
  /\ pensionContributionPercent = 5 /\ employerPensionPercent = 3
  /\ electricCarSacrifice = 0 /\ bikeToWorkSacrifice = 0
  /\ children9MonthsTo3Years = 0 /\ children3To4Years = 0

\* C3: for salary 50,000, no bonus, 5% employee and 3% employer pension, no
\* salary sacrifice and no children, taxableIncome = 47,500, tax = 6,986,
\* nationalInsurance = 4,191.60 and takeHome = 36,322.40.
C3_WorkedScenario ==
  Scenario =>
    /\ calculations.taxableIncome = Pounds(47500)
    /\ calculations.tax = Hundredths(Pounds(6986))
    /\ calculations.nationalInsurance = Hundredths(419160)
    /\ calculations.takeHome = Hundredths(3632240)

\* C3 witness: the scenario has been entered and its record computed.
C3_Witness ==
  /\ Scenario
  /\ calculations.grossIncome = Pounds(50000)
  /\ calculations.employeePensionContribution = Pounds(2500)
  /\ calculations.takeHome = Hundredths(3632240)

\* C9: isUnder100k is true exactly when taxableIncome < 100,000, and the
\* young cohort gets 30 free hours a week when it is true and 0 otherwise:
\* 30 at taxableIncome = 99,999 and 0 at taxableIncome = 100,000.
C9_YoungCohortFreeHours ==
  /\ calculations.isUnder100k <=> calculations.taxableIncome < Pounds(100000)
  /\ calculations.freeHours9MonthsTo3Years =
       IF calculations.taxableIncome < Pounds(100000) THEN 30 ELSE 0
  /\ calculations.taxableIncome = Pounds(99999) =>
       calculations.freeHours9MonthsTo3Years = 30
  /\ calculations.taxableIncome = Pounds(100000) =>
       calculations.freeHours9MonthsTo3Years = 0

\* C9 witness: a record whose taxableIncome is exactly 100,000, with a child
\* in the young cohort and no free hours.
C9_Witness ==
  /\ calculations.taxableIncome = Pounds(100000)
  /\ children9MonthsTo3Years > 0
  /\ ~calculations.isUnder100k
  /\ calculations.freeHours9MonthsTo3Years = 0

\* A record whose taxableIncome is 99,999, with a child in the young cohort
\* and 30 free hours: the eligible side of the threshold is reached too.
C9_EligibleSideReached ==
  /\ calculations.taxableIncome = Pounds(99999)
  /\ children9MonthsTo3Years > 0
  /\ calculations.freeHours9MonthsTo3Years = 30

\* C10: the mid cohort gets exactly 30 free hours a week when taxableIncome
\* < 100,000 and exactly 15 otherwise; so at least 15 always, and never
\* fewer than the young cohort.
C10_MidCohortFreeHours ==
  /\ calculations.freeHours3To4Years =
       IF calculations.taxableIncome < Pounds(100000) THEN 30 ELSE 15
  /\ calculations.freeHours3To4Years >= 15
  /\ calculations.freeHours3To4Years >= calculations.freeHours9MonthsTo3Years

\* C10 witness: a record at or over 100,000 with a child in the mid cohort,
\* which keeps 15 free hours while the young cohort has none.
C10_Witness ==
  /\ calculations.taxableIncome >= Pounds(100000)
  /\ children3To4Years > 0
  /\ calculations.freeHours3To4Years = 15
  /\ calculations.freeHours9MonthsTo3Years = 0

\* The free hours each cohort is entitled to at the record's taxableIncome.
entitlement9MonthsTo3Years == IF calculations.taxableIncome < Pounds(100000) THEN 30 ELSE 0
entitlement3To4Years == IF calculations.taxableIncome < Pounds(100000) THEN 30 ELSE 15

\* hours a week beyond free, and nothing when there are none beyond.
hoursBeyond(free) == IF nurseryHoursPerWeek > free THEN nurseryHoursPerWeek - free ELSE 0

\* C11: for each cohort, paid hours/week = max(0, nurseryHoursPerWeek -
\* freeHours) and annual cost = paidHours * nurseryCostPerHour * 38 *
\* childCount; paid hours are never negative, a cohort whose requested hours
\* do not exceed its free hours costs 0, and with a non-negative hourly cost
\* and child count no cohort cost is negative.
C11_PaidHoursAndCost ==
  /\ calculations.paidHours9MonthsTo3Years = hoursBeyond(entitlement9MonthsTo3Years)
  /\ calculations.paidHours3To4Years = hoursBeyond(entitlement3To4Years)
  /\ calculations.cost9MonthsTo3Years =
       hoursBeyond(entitlement9MonthsTo3Years) * nurseryCostPerHour * 38
         * children9MonthsTo3Years
  /\ calculations.cost3To4Years =
       hoursBeyond(entitlement3To4Years) * nurseryCostPerHour * 38 * children3To4Years
  /\ calculations.paidHours9MonthsTo3Years >= 0
  /\ calculations.paidHours3To4Years >= 0
  /\ nurseryHoursPerWeek <= calculations.freeHours9MonthsTo3Years =>
       calculations.cost9MonthsTo3Years = 0
  /\ nurseryHoursPerWeek <= calculations.freeHours3To4Years =>
       calculations.cost3To4Years = 0
  /\ (nurseryCostPerHour >= 0 /\ nurseryHoursPerWeek >= 0
        /\ children9MonthsTo3Years >= 0 /\ children3To4Years >= 0) =>
       (calculations.cost9MonthsTo3Years >= 0 /\ calculations.cost3To4Years >= 0)

\* C11 witness: 20 hours asked for at or over 100,000, with children in both
\* cohorts: the young cohort pays all 20, the mid cohort 5.
C11_Witness ==
  /\ nurseryHoursPerWeek = 20
  /\ nurseryCostPerHour = Pounds(12)
  /\ ~calculations.isUnder100k
  /\ children9MonthsTo3Years = 1 /\ children3To4Years = 2
  /\ calculations.paidHours9MonthsTo3Years = 20
  /\ calculations.paidHours3To4Years = 5
  /\ calculations.cost9MonthsTo3Years = 20 * Pounds(12) * 38
  /\ calculations.cost3To4Years = 5 * Pounds(12) * 38 * 2

\* 20 hours asked for under 100,000, where 30 are free: the clamp acts and
\* the cohort with a child costs nothing.
C11_ClampReached ==
  /\ nurseryHoursPerWeek = 20
  /\ nurseryCostPerHour > 0
  /\ children9MonthsTo3Years > 0
  /\ calculations.freeHours9MonthsTo3Years = 30
  /\ calculations.paidHours9MonthsTo3Years = 0
  /\ calculations.cost9MonthsTo3Years = 0

\* Every cell but the named child count keeps its value in the step.
only9MonthsTo3YearsChanges ==
  UNCHANGED << salary, bonus, pensionContributionPercent, employerPensionPercent,
               electricCarSacrifice, bikeToWorkSacrifice, nurseryCostPerHour,
               nurseryHoursPerWeek, children3To4Years >>
only3To4YearsChanges ==
  UNCHANGED << salary, bonus, pensionContributionPercent, employerPensionPercent,
               electricCarSacrifice, bikeToWorkSacrifice, nurseryCostPerHour,
               nurseryHoursPerWeek, children9MonthsTo3Years >>

\* C12: with all other inputs fixed, a cohort's annual cost is linear in its
\* child count: a step that multiplies the count by k multiplies the cost by
\* k (doubling the count doubles the cost), and a cohort with no children
\* costs 0 whatever the hourly cost, the hours and the income.
C12_CostLinearInChildren ==
  [][ /\ only9MonthsTo3YearsChanges =>
           \A k \in 0 .. MaxChildren :
             children9MonthsTo3Years' = k * children9MonthsTo3Years =>
               calculations'.cost9MonthsTo3Years = k * calculations.cost9MonthsTo3Years
      /\ only3To4YearsChanges =>
           \A k \in 0 .. MaxChildren :
             children3To4Years' = k * children3To4Years =>
               calculations'.cost3To4Years = k * calculations.cost3To4Years
      /\ children9MonthsTo3Years' = 0 => calculations'.cost9MonthsTo3Years = 0
      /\ children3To4Years' = 0 => calculations'.cost3To4Years = 0
    ]_vars

\* C12 witness: two children in the young cohort cost twice what one child
\* costs, and the empty mid cohort costs nothing although hours are paid for.
C12_Witness ==
  /\ children9MonthsTo3Years = 2
  /\ children3To4Years = 0
  /\ calculations.paidHours9MonthsTo3Years > 0
  /\ calculations.paidHours3To4Years > 0
  /\ nurseryCostPerHour > 0
  /\ calculations.cost9MonthsTo3Years
       = 2 * (calculations.paidHours9MonthsTo3Years * nurseryCostPerHour * 38)
  /\ calculations.cost3To4Years = 0

\* C13 as stated: the free hours reported for a cohort scale linearly with
\* its child count, so they are the per-child entitlement times the count,
\* and a count of zero reports zero free hours.
C13_AsStated ==
  /\ calculations.freeHours9MonthsTo3Years =
       children9MonthsTo3Years * entitlement9MonthsTo3Years
  /\ calculations.freeHours3To4Years = children3To4Years * entitlement3To4Years
  /\ children9MonthsTo3Years = 0 => calculations.freeHours9MonthsTo3Years = 0
  /\ children3To4Years = 0 => calculations.freeHours3To4Years = 0

\* C13 amended: the free hours reported for a cohort are hours per child and
\* do not depend on the child counts: a step that changes only a child count
\* leaves both free-hours outputs as they were, and a count of zero still
\* reports the cohort's entitlement.
C13_FreeHoursPerChild ==
  [][ /\ (only9MonthsTo3YearsChanges \/ only3To4YearsChanges) =>
           /\ calculations'.freeHours9MonthsTo3Years = calculations.freeHours9MonthsTo3Years
           /\ calculations'.freeHours3To4Years = calculations.freeHours3To4Years
      /\ children9MonthsTo3Years' = 0 =>
           calculations'.freeHours9MonthsTo3Years = entitlement9MonthsTo3Years'
      /\ children3To4Years' = 0 =>
           calculations'.freeHours3To4Years = entitlement3To4Years'
    ]_vars

\* C13 witness: no child in the young cohort and two in the mid cohort, and
\* each cohort is reported 30 free hours.
C13_Witness ==
  /\ children9MonthsTo3Years = 0
  /\ children3To4Years = 2
  /\ calculations.freeHours9MonthsTo3Years = 30
  /\ calculations.freeHours3To4Years = 30

\* The record without the two fields the employer's percentage feeds.
withoutEmployerShare(c) ==
  [c EXCEPT !.employerPensionContribution = 0, !.totalPensionContribution = 0]

\* C14: a step that changes employerPensionPercent and no other input leaves
\* every field of the record as it was except employerPensionContribution
\* and totalPensionContribution, which follow the new percentage.
C14_EmployerPercentFrame ==
  [][ ( /\ employerPensionPercent' # employerPensionPercent
        /\ UNCHANGED << salary, bonus, pensionContributionPercent,
                        electricCarSacrifice, bikeToWorkSacrifice, nurseryCostPerHour,
                        nurseryHoursPerWeek, children9MonthsTo3Years, children3To4Years >> )
      => /\ withoutEmployerShare(calculations') = withoutEmployerShare(calculations)
         /\ Hundredths(calculations'.employerPensionContribution)
              = calculations.grossIncome * employerPensionPercent'
         /\ calculations'.totalPensionContribution
              = calculations.employeePensionContribution
                  + calculations'.employerPensionContribution
         /\ calculations.grossIncome # 0 =>
              /\ calculations'.employerPensionContribution
                   # calculations.employerPensionContribution
              /\ calculations'.totalPensionContribution
                   # calculations.totalPensionContribution
    ]_vars

\* C14 witness: the employer's slider has been moved to 20% on a record that
\* is taxed, and the employer's share is 20% of grossIncome.
C14_Witness ==
  /\ employerPensionPercent = 20
  /\ calculations.grossIncome = Pounds(140000)
  /\ calculations.employerPensionContribution = Pounds(28000)
  /\ calculations.totalPensionContribution
       = calculations.employeePensionContribution + Pounds(28000)
  /\ calculations.employeePensionContribution > 0
  /\ calculations.tax > 0

\* C15: for every zero or negative income, calculateTax and calculateNI both
\* return exactly 0, also where the income is negative because the salary
\* sacrifice exceeds what is earned.
C15_NoLiabilityAtOrBelowZero ==
  /\ taxCalled => \A c \in taxCalls : c.income <= 0 => c.tax = 0
  /\ niCalled => \A c \in niCalls : c.income <= 0 => c.ni = 0

\* C15 witness: both walkers have run on -10,000 (two sacrifices of 5,000 and
\* no earnings) and on 0, and returned 0 each time.
C15_Witness ==
  /\ taxCalled /\ niCalled
  /\ probe.a = 0 - Pounds(10000)
  /\ probe.b = 0
  /\ returned.tax = << 0, 0 >>
  /\ returned.ni = << 0, 0 >>

\* The same in the component: a record whose taxableIncome is negative, the
\* sacrifices exceeding grossIncome, carries no tax and no NI.
C15_ReachedInComponent ==
  /\ calculations.grossIncome >= 0
  /\ calculations.taxableIncome < 0
  /\ calculations.tax = 0
  /\ calculations.nationalInsurance = 0

\* C16: a negative salary is clamped to zero, by the input handler or inside
\* the computation: whenever a negative value has been entered in the salary
\* field the record is the record of salary = 0, and grossIncome is negative
\* in no reachable state.
C16_NegativeSalaryClamped ==
  /\ salary < 0 => calculations = computeCalculations([inputs EXCEPT !.salary = 0])
  /\ calculations.grossIncome >= 0

\* C17: after any sequence of input changes the record is the pure function
\* of the current values of the ten inputs: the memo is never stale, so two
\* states with the same inputs carry the same record whatever led to them.
C17_RecordIsFunctionOfInputs ==
  /\ memo.deps = memoDependencies(inputs)
  /\ calculations = computeCalculations(inputs)

\* C17 witness: every one of the ten inputs has been changed from its initial
\* value, and the record is the one of the current inputs.
C17_Witness ==
  /\ \A f \in DOMAIN inputs : inputs[f] # initialInputs[f]
  /\ calculations = computeCalculations(inputs)
  /\ calculations # computeCalculations(initialInputs)

\* The sum over the bands with the whole 12,570 free of tax, whatever the
\* income: 20% of what lies in (12,570, 50,270], 40% of what lies in
\* (50,270, 125,140], 45% of what lies above.
plainBandSum(income) ==
  20 * Min(Max(income - Pounds(12570), 0), Pounds(37700))
    + 40 * Min(Max(income - Pounds(50270), 0), Pounds(74870))
    + 45 * Max(income - Pounds(125140), 0)

\* C18: the tapered allowance has no effect on the tax: for every income,
\* also above 100,000 where the allowance is reduced or zero, calculateTax
\* returns the plain band sum; calculateTax(125,140) = 37,488.
C18_TaperDoesNotChangeTax ==
  taxCalled =>
    \A c \in taxCalls :
      /\ c.tax = plainBandSum(c.income)
      /\ c.income = Pounds(125140) => c.tax = Hundredths(Pounds(37488))

\* C18 witness: calculateTax has run on 110,000, where the allowance is down
\* to 7,570, and on 125,140, where it is zero, and returned the plain sums.
C18_Witness ==
  /\ taxCalled
  /\ probe.a = Pounds(110000)
  /\ probe.b = Pounds(125140)
  /\ returned.allowance = << HalfPence(Pounds(7570)), 0 >>
  /\ returned.tax = << Hundredths(Pounds(7540 + 23892)), Hundredths(Pounds(37488)) >>

\* C19: with no children in either cohort and every other input fixed,
\* takeHome does not fall when the salary rises: a step that changes only
\* the salary, from a to b >= a, leaves takeHome(a) <= takeHome(b).
C19_TakeHomeMonotoneInSalary ==
  [][ ( /\ children9MonthsTo3Years = 0 /\ children3To4Years = 0
        /\ salary <= salary'
        /\ UNCHANGED << bonus, pensionContributionPercent, employerPensionPercent,
                        electricCarSacrifice, bikeToWorkSacrifice, nurseryCostPerHour,
                        nurseryHoursPerWeek, children9MonthsTo3Years, children3To4Years >> )
      => calculations.takeHome <= calculations'.takeHome
    ]_vars

\* C19 witness: a childless record at a salary of 100,000, over the childcare
\* threshold, with hours asked for at a price and still no nursery cost.
C19_Witness ==
  /\ children9MonthsTo3Years = 0 /\ children3To4Years = 0
  /\ salary = Pounds(100000)
  /\ ~calculations.isUnder100k
  /\ nurseryHoursPerWeek > 0 /\ nurseryCostPerHour > 0
  /\ calculations.nurseryAnnualCost = 0
  /\ calculations.tax > 0
  /\ calculations.takeHome > 0

\* The inputs of the flat variant that correspond to the component's: its
\* one child count is the young cohort's.
flatInputs ==
  [ salary |-> salary,
    bonus |-> bonus,
    pensionContributionPercent |-> pensionContributionPercent,
    electricCarSacrifice |-> electricCarSacrifice,
    bikeToWorkSacrifice |-> bikeToWorkSacrifice,
    nurseryCostPerHour |-> nurseryCostPerHour,
    nurseryHoursPerWeek |-> nurseryHoursPerWeek,
    numberOfChildren |-> children9MonthsTo3Years ]

\* The fields the two variants have in common and the claim compares.
SharedFields ==
  { "grossIncome", "taxableIncome", "tax", "nationalInsurance",
    "employeePensionContribution", "employerPensionContribution",
    "totalPensionContribution", "nurseryAnnualCost", "takeHome" }

\* C20: with an employer contribution of 3% and numberOfChildren =
\* children9MonthsTo3Years, the flat variant and the cohort-aware variant
\* give the same grossIncome, taxableIncome, tax, nationalInsurance, pension
\* amounts, nurseryAnnualCost and takeHome whenever the mid cohort is empty;
\* with children in the mid cohort they differ by that cohort's cost, in
\* nurseryAnnualCost and takeHome, and in nothing else.
C20_VariantsAgree ==
  employerPensionPercent = 3 =>
    LET flat == computeCalculationsFlat(flatInputs)
    IN  /\ children3To4Years = 0 =>
             \A f \in SharedFields : flat[f] = calculations[f]
        /\ \A f \in SharedFields \ {"nurseryAnnualCost", "takeHome"} :
             flat[f] = calculations[f]
        /\ calculations.nurseryAnnualCost - flat.nurseryAnnualCost
             = calculations.cost3To4Years
        /\ flat.takeHome - calculations.takeHome
             = Hundredths(calculations.cost3To4Years)

\* C20 witness: two children in the young cohort and none in the mid cohort,
\* 3% from the employer, a taxableIncome of exactly 100,000: both variants
\* charge 40 paid hours for each child.
C20_Witness ==
  /\ employerPensionPercent = 3
  /\ children3To4Years = 0
  /\ children9MonthsTo3Years = 2
  /\ calculations.taxableIncome = Pounds(100000)
  /\ nurseryHoursPerWeek = 40
  /\ calculations.nurseryAnnualCost = 40 * Pounds(12) * 38 * 2
  /\ computeCalculationsFlat(flatInputs).nurseryAnnualCost = 40 * Pounds(12) * 38 * 2
  /\ computeCalculationsFlat(flatInputs).takeHome = calculations.takeHome

\* With a child in the mid cohort at or over 100,000 the variants do differ.
C20_DifferenceReached ==
  /\ employerPensionPercent = 3
  /\ children3To4Years > 0
  /\ ~calculations.isUnder100k
  /\ computeCalculationsFlat(flatInputs).takeHome # calculations.takeHome

=============================================================================
